---- MODULE Spec2Model ----
(***************************************************************************)
(* A model of src/app.py: the Flask handlers for rooms and bookings over   *)
(* the two SQLAlchemy tables Room and Booking (SQLite).                    *)
(*                                                                         *)
(* The database is the pair (rooms, bookings).  A JSON request body is a   *)
(* function from field names to values, so `field in data` is              *)
(* `field \in DOMAIN data` and data.get(k, v) is Get(data, k, v).          *)
(* A text (a date string) is a sequence of one-character strings, so that  *)
(* strptime and strftime are computed character by character.              *)
(***************************************************************************)
EXTENDS Integers, Sequences, FiniteSets, TLC

VARIABLES
    rooms,      \* table Room: a set of rows [id, name, status]
    bookings,   \* table Booking: the sequence of rows, row i having id i
    resp,       \* the response to the last request served
    threads     \* the create_booking requests in flight, per server thread

vars == <<rooms, bookings, resp, threads>>

-----------------------------------------------------------------------------
(* Bounds of the model *)

\* create_room is not taken once the next Room.id would pass MaxRoomId
MaxRoomId == 2
\* create_booking is not taken once the Booking table holds MaxBookings rows
MaxBookings == 2

-----------------------------------------------------------------------------
(* Values *)

\* Python's None / JSON null / SQL NULL, kept apart from every text used
None == "<None>"

Max(S) == CHOOSE x \in S : \A y \in S : y <= x

Get(data, key, default) == IF key \in DOMAIN data THEN data[key] ELSE default

\* The JSON body null, for which request.get_json() returns None: told apart
\* from every JSON object by its one key, which is no text
JsonNull == [k \in {None} |-> None]

\* `not data`: None or the empty object
Falsy(data) == data = JsonNull \/ DOMAIN data = {}

-----------------------------------------------------------------------------
(* Dates: datetime.strptime(s, '%Y-%m-%d').date() and strftime('%Y-%m-%d') *)

Digit == {"0", "1", "2", "3", "4", "5", "6", "7", "8", "9"}
NonZeroDigit == Digit \ {"0"}

DigitVal(c) ==
    CASE c = "0" -> 0 [] c = "1" -> 1 [] c = "2" -> 2 [] c = "3" -> 3
      [] c = "4" -> 4 [] c = "5" -> 5 [] c = "6" -> 6 [] c = "7" -> 7
      [] c = "8" -> 8 [] c = "9" -> 9 [] OTHER -> 0

DigitChar(n) ==
    CASE n = 0 -> "0" [] n = 1 -> "1" [] n = 2 -> "2" [] n = 3 -> "3"
      [] n = 4 -> "4" [] n = 5 -> "5" [] n = 6 -> "6" [] n = 7 -> "7"
      [] n = 8 -> "8" [] OTHER -> "9"

RECURSIVE NumVal(_)
NumVal(s) ==
    IF s = <<>> THEN 0
    ELSE 10 * NumVal(SubSeq(s, 1, Len(s) - 1)) + DigitVal(s[Len(s)])

\* %Y: exactly four digits
YearText(s) == Len(s) = 4 /\ \A i \in 1..4 : s[i] \in Digit

\* %m: 1[0-2] | 0[1-9] | [1-9]
MonthText(s) ==
    \/ Len(s) = 2 /\ s[1] = "1" /\ s[2] \in {"0", "1", "2"}
    \/ Len(s) = 2 /\ s[1] = "0" /\ s[2] \in NonZeroDigit
    \/ Len(s) = 1 /\ s[1] \in NonZeroDigit

\* %d: 3[01] | [12]\d | 0[1-9] | [1-9] | ' '[1-9]
DayText(s) ==
    \/ Len(s) = 2 /\ s[1] = "3" /\ s[2] \in {"0", "1"}
    \/ Len(s) = 2 /\ s[1] \in {"1", "2"} /\ s[2] \in Digit
    \/ Len(s) = 2 /\ s[1] \in {"0", " "} /\ s[2] \in NonZeroDigit
    \/ Len(s) = 1 /\ s[1] \in NonZeroDigit

IsLeap(y) == (y % 4 = 0 /\ y % 100 # 0) \/ y % 400 = 0

DaysInMonth(y, m) ==
    IF m = 2 THEN (IF IsLeap(y) THEN 29 ELSE 28)
    ELSE IF m \in {4, 6, 9, 11} THEN 30 ELSE 31

ValueError == <<>>

\* The date <<year, month, day>> the text s stands for, or ValueError
strptime(s) ==
    LET dashes == {i \in 1..Len(s) : s[i] = "-"}
    IN  IF Cardinality(dashes) # 2 THEN ValueError
        ELSE LET d1 == CHOOSE i \in dashes : \A j \in dashes : i <= j
                 d2 == CHOOSE i \in dashes : \A j \in dashes : j <= i
                 ys == SubSeq(s, 1, d1 - 1)
                 ms == SubSeq(s, d1 + 1, d2 - 1)
                 ds == SubSeq(s, d2 + 1, Len(s))
             IN  IF ~(YearText(ys) /\ MonthText(ms) /\ DayText(ds))
                 THEN ValueError
                 ELSE LET y == NumVal(ys)
                          m == NumVal(ms)
                          d == NumVal(ds)
                      IN  IF y < 1 \/ d > DaysInMonth(y, m)
                          THEN ValueError
                          ELSE <<y, m, d>>

Pad2(n) == <<DigitChar(n \div 10), DigitChar(n % 10)>>

Pad4(n) == Pad2(n \div 100) \o Pad2(n % 100)

strftime(date) == Pad4(date[1]) \o <<"-">> \o Pad2(date[2]) \o <<"-">> \o Pad2(date[3])

\* Order of two stored dates (ORDER BY on a Date column)
DateLess(a, b) ==
    \/ a[1] < b[1]
    \/ a[1] = b[1] /\ a[2] < b[2]
    \/ a[1] = b[1] /\ a[2] = b[2] /\ a[3] < b[3]


-----------------------------------------------------------------------------
(* Requests *)

RoomNames == {"101", "102"}

\* The body restricted to the fields of F
Restrict(full, F) == [k \in F |-> full[k]]

\* JSON bodies of PUT /api/rooms/<id>: any of name and status, or neither,
\* or null
RoomBodies ==
    {Restrict(full, F) :
        full \in [name : RoomNames, status : {"Occupied"}],
        F \in SUBSET {"name", "status"}}
    \cup {JsonNull}

\* JSON bodies of POST /api/rooms: the same, and a body whose name is null
NewRoomBodies == RoomBodies \cup {[name |-> None]}

\* <int:room_id> of the URL, and room_id of a booking body: the ids a room
\* can have, and one no room has
RoomIdInputs == 1..(MaxRoomId + 1)

Text_2024_06_01 == <<"2", "0", "2", "4", "-", "0", "6", "-", "0", "1">>
Text_2024_6_5 == <<"2", "0", "2", "4", "-", "6", "-", "5">>
Text_2024_02_30 == <<"2", "0", "2", "4", "-", "0", "2", "-", "3", "0">>
Text_2024_06_03 == <<"2", "0", "2", "4", "-", "0", "6", "-", "0", "3">>
Text_06_03_2024 == <<"0", "6", "/", "0", "3", "/", "2", "0", "2", "4">>

CheckInStrings == {Text_2024_06_01, Text_2024_6_5, Text_2024_02_30}
CheckOutStrings == {Text_2024_06_03, Text_06_03_2024}

\* strptime and strftime on the texts and dates of the model, computed once
DateTexts == CheckInStrings \cup CheckOutStrings
Parsed == [s \in DateTexts |-> strptime(s)]
Formatted == [d \in {Parsed[s] : s \in DateTexts} \ {ValueError} |-> strftime(d)]

required_fields == {"guest_name", "check_in_date", "check_out_date", "room_id"}

Parties == {[num_adults |-> 2, num_children |-> -1]}

FullBookingBodies ==
    [guest_name : {"Alice"}, check_in_date : CheckInStrings,
     check_out_date : CheckOutStrings, room_id : RoomIdInputs]

\* JSON bodies of POST /api/bookings: every required field with or without
\* counts, bodies lacking one required field (whatever the others hold), the
\* empty object, null, and bodies whose guest_name is null
BookingBodies ==
    FullBookingBodies
    \cup {b @@ p : b \in FullBookingBodies, p \in Parties}
    \cup {Restrict(b, required_fields \ {f}) :
            b \in {x \in FullBookingBodies : x.room_id \in {1, MaxRoomId + 1}},
            f \in required_fields}
    \cup {<<>>, JsonNull}
    \cup {[b EXCEPT !.guest_name = None] :
            b \in {x \in FullBookingBodies :
                     /\ x.check_in_date = Text_2024_06_01
                     /\ x.check_out_date = Text_2024_06_03}}

-----------------------------------------------------------------------------
(* Responses: jsonify(...), status *)

Response(op, status, message, body) ==
    [op |-> op, status |-> status, message |-> message, body |-> body]

\* An exception no handler catches: Flask answers 500
InternalServerError(op) == Response(op, 500, "Internal Server Error", <<>>)

\* get_or_404
NotFound(op) == Response(op, 404, "Not Found", <<>>)

-----------------------------------------------------------------------------
(* The Room table *)

RoomIds(rms) == {r.id : r \in rms}

\* Room.query.get(room_id): the set holding the row, or empty
RoomGet(rms, room_id) == {r \in rms : r.id = room_id}

\* SQLite's rowid for an INTEGER PRIMARY KEY: one more than the largest
NextRoomId(rms) == IF rms = {} THEN 1 ELSE Max(RoomIds(rms)) + 1

\* Room.name: nullable=False, unique=True; Room.status: nullable=False
RoomConstraints(rms) ==
    /\ \A r \in rms : r.name # None /\ r.status # None
    /\ \A r1, r2 \in rms : r1.name = r2.name => r1 = r2

RoomJson(r) == [id |-> r.id, name |-> r.name, status |-> r.status]

\* Booking rows whose room_id is the room's id: Room.bookings
RoomBookings(bks, room_id) == {i \in 1..Len(bks) : bks[i].room_id = room_id}

create_room_result(data) ==
    IF Falsy(data) \/ "name" \notin DOMAIN data
    THEN [rooms |-> rooms,
          resp |-> Response("create_room", 400, "Room name is required", <<>>)]
    ELSE LET new_room == [id |-> NextRoomId(rooms), name |-> data["name"],
                          status |-> Get(data, "status", "Available")]
         IN  IF RoomConstraints(rooms \cup {new_room})
             THEN [rooms |-> rooms \cup {new_room},
                   resp |-> Response("create_room", 201,
                                "Room created successfully", <<RoomJson(new_room)>>)]
             ELSE [rooms |-> rooms, resp |-> InternalServerError("create_room")]

\* update_room with data.get('status', 'Available'), as in create_room
update_room_result_default_status(room_id, data) ==
    IF RoomGet(rooms, room_id) = {}
    THEN [rooms |-> rooms, resp |-> NotFound("update_room")]
    ELSE IF Falsy(data)
    THEN [rooms |-> rooms,
          resp |-> Response("update_room", 400, "No input data provided", <<>>)]
    ELSE LET room == CHOOSE r \in rooms : r.id = room_id
             updated == [id |-> room.id,
                         name |-> Get(data, "name", room.name),
                         status |-> Get(data, "status", "Available")]
             new_rooms == (rooms \ {room}) \cup {updated}
         IN  IF RoomConstraints(new_rooms)
             THEN [rooms |-> new_rooms,
                   resp |-> Response("update_room", 200,
                                "Room updated successfully", <<RoomJson(updated)>>)]
             ELSE [rooms |-> rooms, resp |-> InternalServerError("update_room")]

update_room_result(room_id, data) ==
    IF RoomGet(rooms, room_id) = {}
    THEN [rooms |-> rooms, resp |-> NotFound("update_room")]
    ELSE IF Falsy(data)
    THEN [rooms |-> rooms,
          resp |-> Response("update_room", 400, "No input data provided", <<>>)]
    ELSE LET room == CHOOSE r \in rooms : r.id = room_id
             updated == [id |-> room.id,
                         name |-> Get(data, "name", room.name),
                         status |-> Get(data, "status", room.status)]
             new_rooms == (rooms \ {room}) \cup {updated}
         IN  IF RoomConstraints(new_rooms)
             THEN [rooms |-> new_rooms,
                   resp |-> Response("update_room", 200,
                                "Room updated successfully", <<RoomJson(updated)>>)]
             ELSE [rooms |-> rooms, resp |-> InternalServerError("update_room")]

\* delete_room were Booking.room_id left out of the flush (passive_deletes):
\* the room goes and its bookings stay
delete_room_result_keeping_bookings(room_id) ==
    IF RoomGet(rooms, room_id) = {}
    THEN [rooms |-> rooms, resp |-> NotFound("delete_room")]
    ELSE [rooms |-> {r \in rooms : r.id # room_id},
          resp |-> Response("delete_room", 200, "Room deleted successfully", <<>>)]

\* db.session.delete(room): Room.bookings has no delete cascade, so the flush
\* sets room_id of the room's bookings to NULL, which Booking.room_id
\* (nullable=False) refuses: IntegrityError, and nothing is committed.
delete_room_result(room_id) ==
    IF RoomGet(rooms, room_id) = {}
    THEN [rooms |-> rooms, resp |-> NotFound("delete_room")]
    ELSE IF RoomBookings(bookings, room_id) # {}
    THEN [rooms |-> rooms, resp |-> InternalServerError("delete_room")]
    ELSE [rooms |-> {r \in rooms : r.id # room_id},
          resp |-> Response("delete_room", 200, "Room deleted successfully", <<>>)]

-----------------------------------------------------------------------------
(* The Booking table and create_booking *)

\* Step 1: all(field in data for field in required_fields)
RequiredFieldsPresent(data) == required_fields \subseteq DOMAIN data

MissingFieldsResponse ==
    Response("create_booking", 400, "Missing required fields", <<>>)

InvalidDateResponse ==
    Response("create_booking", 400,
             "Invalid date format. Please use YYYY-MM-DD.", <<>>)

RoomNotFoundResponse ==
    Response("create_booking", 404, "Room not found with the provided ID", <<>>)

\* Steps 1 and 2: the response that ends the request, or <<>> to go on.
\* `field in data` raises TypeError when data is None, and nothing catches it.
ValidateBooking(data) ==
    IF data = JsonNull THEN <<InternalServerError("create_booking")>>
    ELSE IF ~RequiredFieldsPresent(data) THEN <<MissingFieldsResponse>>
    ELSE IF Parsed[data["check_in_date"]] = ValueError
            \/ Parsed[data["check_out_date"]] = ValueError
    THEN <<InvalidDateResponse>>
    ELSE <<>>

\* Step 3 with Room.query.first(): any room will do
LookupRoomFirst(rms, data) ==
    IF rms = {} THEN <<RoomNotFoundResponse>> ELSE <<>>

\* Step 3: room_to_book = Room.query.get(data['room_id'])
LookupRoom(rms, data) ==
    IF RoomGet(rms, data["room_id"]) = {} THEN <<RoomNotFoundResponse>> ELSE <<>>

\* Step 4: Booking(...), with the column defaults the INSERT applies
NewBooking(data, id) ==
    [id |-> id,
     guest_name |-> data["guest_name"],
     check_in_date |-> Parsed[data["check_in_date"]],
     check_out_date |-> Parsed[data["check_out_date"]],
     room_id |-> data["room_id"],
     num_adults |-> Get(data, "num_adults", 1),
     num_children |-> Get(data, "num_children", 0),
     phone_number |-> Get(data, "phone_number", None),
     email |-> Get(data, "email", None),
     booking_status |-> "Confirmed",
     payment_status |-> "Unpaid",
     total_amount |-> None,
     amount_paid |-> 0,
     payment_method |-> None]

\* Booking.guest_name: nullable=False (the other NOT NULL columns are never
\* null here: the dates parsed, room_id named a room, the counts are numbers)
BookingConstraints(b) == b.guest_name # None

\* Step 5: db.session.add(new_booking); db.session.commit()
InsertBooking(bks, data) ==
    LET new_booking == NewBooking(data, Len(bks) + 1)
    IN  IF BookingConstraints(new_booking)
        THEN [bookings |-> Append(bks, new_booking),
              resp |-> Response("create_booking", 201,
                           "Booking created successfully",
                           <<[booking_id |-> new_booking.id]>>)]
        ELSE [bookings |-> bks, resp |-> InternalServerError("create_booking")]

\* The whole handler, served without interruption
create_booking_result(data) ==
    IF ValidateBooking(data) # <<>>
    THEN [bookings |-> bookings, resp |-> ValidateBooking(data)[1]]
    ELSE IF LookupRoom(rooms, data) # <<>>
    THEN [bookings |-> bookings, resp |-> LookupRoom(rooms, data)[1]]
    ELSE InsertBooking(bookings, data)

-----------------------------------------------------------------------------
(* Listings *)

OrdersOf(n) ==
    {p \in [1..n -> 1..n] : \A i, j \in 1..n : p[i] = p[j] => i = j}

\* Booking.query.all(): the rows in id order
BookingOrdersById(bks) == {[i \in 1..Len(bks) |-> i]}

\* Booking.query.order_by(Booking.check_in_date).all(): the orders of the
\* rows (as sequences of ids) that SQL allows, rows of equal check_in_date
\* coming in either order
BookingOrders(bks) ==
    {p \in OrdersOf(Len(bks)) :
        \A i, j \in 1..Len(bks) :
            i < j => ~DateLess(bks[p[j]].check_in_date, bks[p[i]].check_in_date)}

BookingJson(b, rms) ==
    [id |-> b.id,
     guest_name |-> b.guest_name,
     check_in_date |-> Formatted[b.check_in_date],
     check_out_date |-> Formatted[b.check_out_date],
     room_id |-> b.room_id,
     room_name |-> (CHOOSE r \in rms : r.id = b.room_id).name]

\* booking.room is None for a booking whose room_id names no room, and
\* booking.room.name then raises AttributeError
get_all_bookings_result(order) ==
    IF \E i \in 1..Len(bookings) : RoomGet(rooms, bookings[i].room_id) = {}
    THEN InternalServerError("get_all_bookings")
    ELSE Response("get_all_bookings", 200, "",
                  [i \in 1..Len(bookings) |-> BookingJson(bookings[order[i]], rooms)])

-----------------------------------------------------------------------------
(* Server threads: app.run serves each request in a thread of its own, and *)
(* each thread has a database session of its own                           *)

Workers == {"t1", "t2"}

\* A thread: where it is in create_booking, the body it was given, its
\* response once it has one, and the threads that were in create_booking at
\* some moment while it was
Thread(pc, data, response, peers) ==
    [pc |-> pc, data |-> data, resp |-> response, peers |-> peers]

Idle == Thread("idle", <<>>, <<>>, {})

InFlight(w) == threads[w].pc \in {"lookup", "insert"}

-----------------------------------------------------------------------------
(* The handlers, each served from request to response *)

Init ==
    /\ rooms = {}
    /\ bookings = <<>>
    /\ resp = Response("none", 0, "", <<>>)
    /\ threads = [w \in Workers |-> Idle]

create_room(data) ==
    /\ NextRoomId(rooms) <= MaxRoomId
    /\ LET result == create_room_result(data)
       IN  rooms' = result.rooms /\ resp' = result.resp
    /\ UNCHANGED <<bookings, threads>>

update_room(room_id, data) ==
    /\ LET result == update_room_result(room_id, data)
       IN  rooms' = result.rooms /\ resp' = result.resp
    /\ UNCHANGED <<bookings, threads>>

delete_room(room_id) ==
    /\ LET result == delete_room_result(room_id)
       IN  rooms' = result.rooms /\ resp' = result.resp
    /\ UNCHANGED <<bookings, threads>>

create_booking(data) ==
    /\ Len(bookings) < MaxBookings
    /\ LET result == create_booking_result(data)
       IN  bookings' = result.bookings /\ resp' = result.resp
    /\ UNCHANGED <<rooms, threads>>

get_all_bookings ==
    /\ \E order \in BookingOrders(bookings) :
          resp' = get_all_bookings_result(order)
    /\ UNCHANGED <<rooms, bookings, threads>>

Next ==
    \/ \E data \in NewRoomBodies : create_room(data)
    \/ \E room_id \in RoomIdInputs, data \in RoomBodies : update_room(room_id, data)
    \/ \E room_id \in RoomIdInputs : delete_room(room_id)
    \/ \E data \in BookingBodies : create_booking(data)
    \/ get_all_bookings

\* Requests served one after the other
Spec == Init /\ [][Next]_vars

-----------------------------------------------------------------------------
(* create_booking served by a thread, step by step, among the other requests *)

\* Steps 1 and 2 (they read the request only)
create_booking_validate(w, data) ==
    /\ threads[w].pc = "idle"
    /\ Len(bookings) + Cardinality({v \in Workers : InFlight(v)}) < MaxBookings
    /\ LET others == {v \in Workers : InFlight(v)}
       IN  IF ValidateBooking(data) # <<>>
           THEN /\ resp' = ValidateBooking(data)[1]
                /\ threads' = [threads EXCEPT
                                 ![w] = Thread("done", <<>>, resp', {})]
           ELSE /\ resp' = resp
                /\ threads' = [v \in Workers |->
                                 IF v = w THEN Thread("lookup", data, <<>>, others)
                                 ELSE IF v \in others
                                 THEN [threads[v] EXCEPT !.peers = @ \cup {w}]
                                 ELSE threads[v]]
    /\ UNCHANGED <<rooms, bookings>>

\* Step 3: the SELECT of Room.query.get
create_booking_lookup(w) ==
    /\ threads[w].pc = "lookup"
    /\ IF LookupRoom(rooms, threads[w].data) # <<>>
       THEN /\ resp' = LookupRoom(rooms, threads[w].data)[1]
            /\ threads' = [threads EXCEPT ![w].pc = "done", ![w].resp = resp']
       ELSE /\ resp' = resp
            /\ threads' = [threads EXCEPT ![w].pc = "insert"]
    /\ UNCHANGED <<rooms, bookings>>

\* Steps 4 to 6: the INSERT and the COMMIT.  SQLite does not enforce the
\* foreign key (PRAGMA foreign_keys is off), so the row is stored whether or
\* not the room is still there.
create_booking_commit(w) ==
    /\ threads[w].pc = "insert"
    /\ LET result == InsertBooking(bookings, threads[w].data)
       IN  /\ bookings' = result.bookings
           /\ resp' = result.resp
           /\ threads' = [threads EXCEPT ![w].pc = "done", ![w].resp = result.resp]
    /\ UNCHANGED rooms

NextConcurrent ==
    \/ \E data \in NewRoomBodies : create_room(data)
    \/ \E room_id \in RoomIdInputs : delete_room(room_id)
    \/ get_all_bookings
    \/ \E w \in Workers, data \in BookingBodies : create_booking_validate(w, data)
    \/ \E w \in Workers : create_booking_lookup(w)
    \/ \E w \in Workers : create_booking_commit(w)

\* Requests served by threads, create_booking interleaved with the others
SpecConcurrent == Init /\ [][NextConcurrent]_vars

-----------------------------------------------------------------------------
(* Properties *)

\* Half-open intervals [a, b) and [c, d) overlap iff a < d and c < b
Overlap(a, b, c, d) == DateLess(a, d) /\ DateLess(c, b)

BookingsOverlap(x, y) ==
    /\ x.room_id = y.room_id
    /\ Overlap(x.check_in_date, x.check_out_date, y.check_in_date, y.check_out_date)

\* C1: no two stored Confirmed bookings of the same room have overlapping
\* intervals [check_in_date, check_out_date): a create_booking that overlaps
\* a Confirmed booking of the room is rejected and stores nothing.
C1_NoOverlappingConfirmedBookings ==
    \A i, j \in 1..Len(bookings) :
        /\ i < j
        /\ bookings[i].booking_status = "Confirmed"
        /\ bookings[j].booking_status = "Confirmed"
        => ~BookingsOverlap(bookings[i], bookings[j])

\* C2: of two create_booking requests for the same room with overlapping
\* dates that were in flight at the same time, at most one succeeds.
C2_ConcurrentOverlapAtMostOneSucceeds ==
    \A w, v \in Workers :
        /\ w # v
        /\ threads[w].pc = "done" /\ threads[v].pc = "done"
        /\ v \in threads[w].peers
        /\ threads[w].resp.status = 201
        => ~(/\ threads[v].resp.status = 201
             /\ BookingsOverlap(NewBooking(threads[w].data, 0),
                                NewBooking(threads[v].data, 0)))

RoomNamesUnique == \A r1, r2 \in rooms : r1.name = r2.name => r1 = r2

\* C3: no two stored rooms have the same name, and a create_room whose name
\* an existing room has fails as a bad request (400) and leaves the rooms
\* unchanged.
C3_DuplicateNameIsValidationError ==
    /\ []RoomNamesUnique
    /\ [][\A data \in NewRoomBodies :
            /\ "name" \in DOMAIN data
            /\ \E r \in rooms : r.name = data["name"]
            /\ create_room(data)
            => resp'.status = 400 /\ rooms' = rooms]_vars

\* C4: a create_booking whose required fields are present and whose dates
\* parse, but whose room_id names no room existing at that moment, answers
\* 404 "Room not found with the provided ID"; and a request so answered
\* leaves bookings and rooms unchanged.
C4_UnknownRoomIsNotFound ==
    /\ [](\A data \in BookingBodies :
            /\ required_fields \subseteq DOMAIN data
            /\ Parsed[data["check_in_date"]] # ValueError
            /\ Parsed[data["check_out_date"]] # ValueError
            /\ \A r \in rooms : r.id # data["room_id"]
            => /\ create_booking_result(data).resp = RoomNotFoundResponse
               /\ create_booking_result(data).resp.status = 404
               /\ create_booking_result(data).bookings = bookings)
    /\ [][resp' = RoomNotFoundResponse
            => bookings' = bookings /\ rooms' = rooms]_vars

C4_Witness ==
    /\ resp = RoomNotFoundResponse
    /\ rooms # {}
    /\ bookings # <<>>

\* C5: every stored booking has check_in_date < check_out_date.
C5_CheckInBeforeCheckOut ==
    \A i \in 1..Len(bookings) :
        DateLess(bookings[i].check_in_date, bookings[i].check_out_date)

\* C6: a create_booking that lacks one of guest_name, check_in_date,
\* check_out_date, room_id answers 400 "Missing required fields" whatever
\* its other fields hold, and leaves the bookings unchanged.
C6_MissingFieldIsBadRequest ==
    [][\A data \in BookingBodies :
            /\ \E f \in required_fields : f \notin DOMAIN data
            /\ create_booking(data)
            => /\ resp' = MissingFieldsResponse
               /\ resp'.status = 400
               /\ bookings' = bookings]_vars

\* C7: update_room changes only the supplied fields of the room named by
\* the id: an omitted name or status keeps its value, the id stays, every
\* other room and every booking is unchanged; on an unknown id it answers
\* 404 and changes nothing.
C7_UpdateRoomChangesOnlySuppliedFields ==
    /\ [](\A room_id \in RoomIdInputs, data \in RoomBodies :
            LET after == update_room_result(room_id, data).rooms
            IN  /\ RoomIds(after) = RoomIds(rooms)
                /\ \A r \in rooms : r.id # room_id => r \in after
                /\ \A r \in rooms, q \in after :
                      r.id = room_id /\ q.id = room_id
                      => /\ q.name \in {r.name, Get(data, "name", r.name)}
                         /\ q.status \in {r.status, Get(data, "status", r.status)}
                         /\ "name" \notin DOMAIN data => q.name = r.name
                         /\ "status" \notin DOMAIN data => q.status = r.status
                /\ RoomGet(rooms, room_id) = {}
                      => /\ update_room_result(room_id, data).resp
                              = NotFound("update_room")
                         /\ after = rooms)
    /\ [][resp'.op = "update_room" => bookings' = bookings]_vars

C7_Witness ==
    /\ resp.op = "update_room"
    /\ resp.status = 200
    /\ resp.body[1].status = "Occupied"
    /\ resp.body[1].name = "102"
    /\ Cardinality(rooms) = 2
    /\ bookings # <<>>

\* C8: every stored booking has num_adults >= 0 and num_children >= 0
\* (1 and 0 when omitted), booking_status Confirmed, payment_status Unpaid
\* and amount_paid 0; a negative count is rejected and stores no booking.
C8_StoredCountsAreNonNegative ==
    \A i \in 1..Len(bookings) :
        /\ bookings[i].num_adults >= 0
        /\ bookings[i].num_children >= 0
        /\ bookings[i].booking_status = "Confirmed"
        /\ bookings[i].payment_status = "Unpaid"
        /\ bookings[i].amount_paid = 0

\* C9: get_all_bookings answers with every stored booking exactly once, in
\* non-decreasing check_in_date order, each entry carrying the name its room
\* has at the time of the listing.
C9_ListingIsSortedCompleteAndJoined ==
    resp.op = "get_all_bookings" =>
        /\ resp.status = 200
        /\ Len(resp.body) = Len(bookings)
        /\ {resp.body[i].id : i \in 1..Len(resp.body)} = 1..Len(bookings)
        /\ \A i \in 1..Len(resp.body) :
              LET entry == resp.body[i]
                  row == bookings[entry.id]
              IN  /\ entry.room_id = row.room_id
                  /\ entry.guest_name = row.guest_name
                  /\ strptime(entry.check_in_date) = row.check_in_date
                  /\ \E r \in rooms : r.id = row.room_id /\ r.name = entry.room_name
        /\ \A i, j \in 1..Len(resp.body) :
              i < j => ~DateLess(bookings[resp.body[j].id].check_in_date,
                                 bookings[resp.body[i].id].check_in_date)

C9_Witness ==
    /\ resp.op = "get_all_bookings"
    /\ Len(resp.body) = 2
    /\ resp.body[1].id = 2
    /\ resp.body[1].check_in_date # resp.body[2].check_in_date
    /\ resp.body[1].room_name = "102"
    /\ resp.body[1].room_id = 1

\* C10: every stored booking's room_id names a room that exists (delete_room
\* leaves no booking behind without its room), so get_all_bookings resolves
\* room_name for every booking.
C10_EveryBookingHasItsRoom ==
    /\ \A i \in 1..Len(bookings) : RoomGet(rooms, bookings[i].room_id) # {}
    /\ resp.op = "get_all_bookings" => resp.status = 200

C10_Witness ==
    /\ resp = InternalServerError("delete_room")
    /\ bookings # <<>>
    /\ Cardinality(rooms) = 2

=============================================================================
